---- MODULE Spec2Model ----
(***************************************************************************)
(* A model of the mpris client library (src/src/client.rs, errors.rs,      *)
(* lib.rs): the D-Bus session (DBusConn), the MprisRoot facade, the signal *)
(* iterator MprisSignals and the decoders MprisSignal::from_message and    *)
(* ChangedProperty::from_variant.                                          *)
(*                                                                         *)
(* Representation.  Bus names, error names and error messages are          *)
(* sequences of tokens ("org.mpris.MediaPlayer2.vlc" is                    *)
(* <<"org","mpris","MediaPlayer2","vlc">>), so that str::contains is a     *)
(* real search for a contiguous run of tokens.  String payloads of wire    *)
(* values are sequences of pieces too; where the code works on characters  *)
(* (to_lowercase, object path syntax) the pieces are single characters.    *)
(* Option<T> is a sequence of length 0 (None) or 1 (Some).  Result<T> is a *)
(* record with the field ok.  A wire value is a pair <<type, value>> and a *)
(* ChangedProperty a pair <<variant, payload>>.                            *)
(*                                                                         *)
(* Four specifications: Spec is the session with its method calls and      *)
(* property accesses under every answer of the transport; SpecSignals adds *)
(* the signal stream and the traffic of the bus; SpecDecode applies the    *)
(* two decoders to messages and (name, value) pairs; SpecValues applies    *)
(* the parsers, the constructor, the accessors and the equality of the     *)
(* value types of lib.rs to texts and maps.                                *)
(***************************************************************************)
EXTENDS Integers, Sequences, FiniteSets, TLC

VARIABLES
    owner,      \* the bus: unique name owning the player's well-known name, as Option
    conn,       \* Option<DBusConn>: the session, once MprisClient::new succeeded
    matches,    \* match rules registered on the connection
    inbound,    \* the connection's queue of inbound messages
    stream,     \* Option<MprisSignals>: the iterator returned by signals()
    ret,        \* the last operation: its name, arguments, the requests it sent,
                \* the transport's reply and the result
    emitted,    \* history: decodable signals the session's player emitted after new()
    yielded,    \* history: the messages whose signals the pulls yielded
    sawEmpty,   \* history: some pull on the stream has yielded no item
    arrivals    \* history: number of messages the bus has routed so far

vars == <<owner, conn, matches, inbound, stream, ret, emitted, yielded,
          sawEmpty, arrivals>>

(***************************************************************************)
(* Bounds of the model.                                                    *)
(***************************************************************************)
MaxInbound == 2     \* messages the inbound queue holds at once
MaxArrivals == 2    \* messages the bus delivers or drops in one behaviour
MaxPathLen == 4     \* characters of a text handed to TrackId::from_str

(***************************************************************************)
(* Option and Result.                                                      *)
(***************************************************************************)
None == <<>>
Some(x) == <<x>>
IsSome(o) == Len(o) = 1
Get(o) == o[1]

Ok(v) == [ok |-> TRUE, v |-> v]
Unit == "()"

\* an errors::Error: its ErrorKind with the kind's fields, and the chained cause
Err(kind, args, cause) == [ok |-> FALSE, kind |-> kind, args |-> args, cause |-> cause]

\* what the transport answered: a value, or a dbus::Error
TOk(v) == [ok |-> TRUE, v |-> v]
TErr(e) == [ok |-> FALSE, err |-> e]

(***************************************************************************)
(* str::contains on token sequences.                                       *)
(***************************************************************************)
Contains(hay, needle) ==
    \E i \in 0..(Len(hay) - Len(needle)) :
        SubSeq(hay, i + 1, i + Len(needle)) = needle

(***************************************************************************)
(* Names of the protocol.                                                  *)
(***************************************************************************)
RootPath == <<"org", "mpris", "MediaPlayer2">>              \* the object path
IfaceRoot == <<"org", "mpris", "MediaPlayer2">>
IfacePlayer == <<"org", "mpris", "MediaPlayer2", "Player">>
IfaceTrackList == <<"org", "mpris", "MediaPlayer2", "TrackList">>
IfacePlaylists == <<"org", "mpris", "MediaPlayer2", "Playlists">>
IfaceProps == <<"org", "freedesktop", "DBus", "Properties">>

ErrPrefix == <<"org", "freedesktop", "DBus", "Error">>
NameUnknownProperty == ErrPrefix \o <<"UnknownProperty">>
NameServiceUnknown == ErrPrefix \o <<"ServiceUnknown">>
NameNameHasNoOwner == ErrPrefix \o <<"NameHasNoOwner">>
NameNoReply == ErrPrefix \o <<"NoReply">>
NameInvalidArgs == ErrPrefix \o <<"InvalidArgs">>
NameFailed == ErrPrefix \o <<"Failed">>

\* a dbus::Error: an optional name and an optional message
DBusError(name, message) == [name |-> name, message |-> message]

PlayerNames == {"vlc", "cantata", ""}
FirstUnique == <<":1", "42">>       \* the player's unique name
LaterUnique == <<":1", "77">>       \* its unique name once restarted
OtherClient == <<":1", "9">>        \* another client of the bus

\* format!("org.mpris.MediaPlayer2.{}", player_name)
BusNameOf(player_name) == <<"org", "mpris", "MediaPlayer2", player_name>>

\* the bus accepts a name whose elements are all non-empty
ValidBusName(bus_name) == \A i \in 1..Len(bus_name) : bus_name[i] # ""

ThePlayer == "vlc"      \* the one player process of the model

(***************************************************************************)
(* Wire values (MessageItem, RefArg): a pair of a type tag and a value.     *)
(***************************************************************************)
TypeOf(w) == w[1]
ValueOf(w) == w[2]
WBool(b) == <<"bool", b>>
WStr(s) == <<"string", s>>
WPath(s) == <<"objpath", s>>
WI64(n) == <<"i64", n>>
WU32(n) == <<"u32", n>>
WF64(n) == <<"f64", n>>
WStrArray(a) == <<"array_string", a>>
WDict(d) == <<"dict_sv", d>>

(***************************************************************************)
(* errors.rs                                                               *)
(***************************************************************************)
\* err.message().unwrap_or("").contains(text)
err_message_contains(err, match_err_name) ==
    IF IsSome(err.message) THEN Contains(Get(err.message), match_err_name) ELSE FALSE

\* err.name().map(|name| name.contains(match_err_name)).unwrap_or(false)
match_dbus_err(err, match_err_name) ==
    IF IsSome(err.name) THEN Contains(Get(err.name), match_err_name) ELSE FALSE

\* foreign_links { DBus(::dbus::Error) }: the From conversion used by ? and bail!
FromDBus(e) == Err("DBus", <<e>>, None)

\* chain_err(|| kind): the new kind, with the failed result's error as its cause
ChainErr(e, kind, args) == Err(kind, args, Some(e))

(***************************************************************************)
(* The transport (the dbus crate and the bus daemon): the answers it can   *)
(* give, from the state of the bus.                                        *)
(***************************************************************************)
TextNotProvided == <<"The", "name", "was", "not", "provided", "by", "any", "service">>
TextNoSuchName == <<"Could", "not", "get", "owner", "of", "name">>
TextNoProperty == <<"Property", "was", "not", "found">>
TextNoReply == <<"Did", "not", "receive", "a", "reply">>
TextRelayed == <<"GDBus", "Error">> \o NameServiceUnknown \o <<"The", "name", "is", "gone">>

ErrServiceUnknown == DBusError(Some(NameServiceUnknown), Some(TextNotProvided))
ErrUnknownProperty == DBusError(Some(NameUnknownProperty), Some(TextNoProperty))
ErrNoReply == DBusError(Some(NameNoReply), Some(TextNoReply))
ErrRelayed == DBusError(Some(NameFailed), Some(TextRelayed))
ErrAnonymous == DBusError(None, None)

\* errors a running player, or the wait for its reply, can produce
PlayerErrors == {ErrUnknownProperty, ErrNoReply, ErrRelayed, ErrAnonymous}

\* the unique owner of a well-known name, if any
OwnerOf(own, bus_name) == IF bus_name = BusNameOf(ThePlayer) THEN own ELSE None

\* Connection::get_private(BusType::Session)
ConnectReplies == {TOk(Unit), TErr(DBusError(Some(NameFailed), None))}

\* org.freedesktop.DBus.GetNameOwner(bus_name)
GetNameOwnerReplies(own, bus_name) ==
    IF ~ValidBusName(bus_name)
    THEN {TErr(DBusError(Some(NameInvalidArgs), None))}
    ELSE IF ~IsSome(OwnerOf(own, bus_name))
    THEN {TErr(DBusError(Some(NameNameHasNoOwner), Some(TextNoSuchName)))}
    ELSE {TOk(<<WStr(Get(OwnerOf(own, bus_name)))>>), TErr(ErrNoReply)}

\* a method call or property access addressed to bus_name; errors are the
\* errors of the player that the specification considers
CallReplies(own, bus_name, values, errors) ==
    IF ~IsSome(OwnerOf(own, bus_name))
    THEN {TErr(ErrServiceUnknown)}
    ELSE {TOk(v) : v \in values} \cup {TErr(e) : e \in errors}

PropValues == {WBool(TRUE), WBool(FALSE), WStr(<<"x">>)}

(***************************************************************************)
(* DBusConn (client.rs)                                                    *)
(***************************************************************************)
\* Message::new_method_call: fails (with a String) on a malformed name
new_method_call(dest, path, iface, member) ==
    IF ValidBusName(dest) THEN Ok(Unit)
    ELSE Err("Msg", <<"invalid bus name">>, None)

\* the result of call_method_without_reply, given the transport's reply
call_method_without_reply(self, obj_path, member, reply) ==
    IF ~new_method_call(self.bus_name, obj_path, IfaceRoot, member).ok
    THEN new_method_call(self.bus_name, obj_path, IfaceRoot, member)
    ELSE IF ~reply.ok
    THEN IF err_message_contains(reply.err, NameServiceUnknown)
         THEN ChainErr(reply.err, "ServiceUnknown", <<self.bus_name>>)
         ELSE ChainErr(reply.err, "GeneralError", <<"Could not call D-Bus method.">>)
    ELSE Ok(Unit)

\* the result of get_prop
get_prop(self, obj_path, member, reply) ==
    IF reply.ok THEN Ok(reply.v) ELSE FromDBus(reply.err)

\* get_optional_prop matching on the error's message
get_optional_prop_by_message(self, obj_path, member, reply) ==
    IF reply.ok THEN Ok(Some(reply.v))
    ELSE IF err_message_contains(reply.err, <<"DBus", "Error", "UnknownProperty">>)
    THEN Ok(None)
    ELSE FromDBus(reply.err)

\* the result of get_optional_prop
get_optional_prop(self, obj_path, member, reply) ==
    IF reply.ok THEN Ok(Some(reply.v))
    ELSE IF match_dbus_err(reply.err, <<"DBus", "Error", "UnknownProperty">>)
    THEN Ok(None)
    ELSE FromDBus(reply.err)

\* set_prop reporting every failure as the transport's error
set_prop_untranslated(self, obj_path, member, value, reply) ==
    IF reply.ok THEN Ok(Unit) ELSE FromDBus(reply.err)

\* the result of set_prop
set_prop(self, obj_path, member, value, reply) ==
    IF reply.ok THEN Ok(Unit)
    ELSE IF match_dbus_err(reply.err, <<"DBus", "Error", "UnknownProperty">>)
    THEN Err("AccessedAbsentOptionalProperty", <<obj_path, member>>, None)
    ELSE FromDBus(reply.err)

\* DBusConn::new without the rule for PropertiesChanged
NewMatchRules_lazy ==
    { [path |-> RootPath, interface |-> IfaceRoot, member |-> None],
      [path |-> RootPath, interface |-> IfacePlayer, member |-> None],
      [path |-> RootPath, interface |-> IfaceTrackList, member |-> None],
      [path |-> RootPath, interface |-> IfacePlaylists, member |-> None] }

\* the five conn.add_match calls of DBusConn::new, as (path, interface, member)
\* rules; a member of None matches every member
NewMatchRules ==
    { [path |-> RootPath, interface |-> IfaceProps, member |-> Some("PropertiesChanged")],
      [path |-> RootPath, interface |-> IfaceRoot, member |-> None],
      [path |-> RootPath, interface |-> IfacePlayer, member |-> None],
      [path |-> RootPath, interface |-> IfaceTrackList, member |-> None],
      [path |-> RootPath, interface |-> IfacePlaylists, member |-> None] }

\* res.read1::<String>()
read1_string(body) ==
    IF Len(body) >= 1 /\ TypeOf(body[1]) = "string" THEN Ok(ValueOf(body[1]))
    ELSE Err("Msg", <<"Could not convert to String">>, None)

\* the result of DBusConn::new: Ok(the DBusConn) or the error
DBusConn_new(player_name, timeout_ms, connected, reply) ==
    IF ~connected.ok THEN FromDBus(connected.err)
    ELSE IF ~reply.ok
    THEN ChainErr(reply.err, "GeneralError",
                  <<"Could not get unique bus name. Does the player exist?">>)
    ELSE IF ~read1_string(reply.v).ok THEN read1_string(reply.v)
    ELSE Ok([bus_name |-> BusNameOf(player_name),
             unique_bus_name |-> read1_string(reply.v).v,
             timeout |-> timeout_ms])

(***************************************************************************)
(* lib.rs: the value types the decoders build.                             *)
(***************************************************************************)
UpperChars == <<"A", "B", "C", "D", "E", "F", "G", "H", "I", "J", "K", "L", "M",
                "N", "O", "P", "Q", "R", "S", "T", "U", "V", "W", "X", "Y", "Z">>
LowerChars == <<"a", "b", "c", "d", "e", "f", "g", "h", "i", "j", "k", "l", "m",
                "n", "o", "p", "q", "r", "s", "t", "u", "v", "w", "x", "y", "z">>
Digits == {"0", "1", "2", "3", "4", "5", "6", "7", "8", "9"}

ToLowerChar(c) ==
    IF \E i \in 1..Len(UpperChars) : UpperChars[i] = c
    THEN LowerChars[CHOOSE i \in 1..Len(UpperChars) : UpperChars[i] = c]
    ELSE c

\* str::to_lowercase
to_lowercase(s) == [i \in 1..Len(s) |-> ToLowerChar(s[i])]

\* dbus::Path::new(s).is_ok(): the syntax of an object path
ValidObjectPath(s) ==
    /\ Len(s) >= 1
    /\ s[1] = "/"
    /\ (Len(s) > 1 => s[Len(s)] # "/")
    /\ \A i \in 1..Len(s) :
          \/ s[i] = "/" /\ (i < Len(s) => s[i + 1] # "/")
          \/ s[i] = "_"
          \/ s[i] \in Digits
          \/ \E k \in 1..Len(UpperChars) : s[i] = UpperChars[k] \/ s[i] = LowerChars[k]

\* TrackId::from_str without the validation of the path
TrackId_from_str_unchecked(track_id) == Ok([track_id |-> track_id])

\* TrackId::from_str
TrackId_from_str(track_id) ==
    IF ~ValidObjectPath(track_id)
    THEN Err("TypeBuildError", <<"TrackId", track_id>>, None)
    ELSE Ok([track_id |-> track_id])

\* PlaybackStatus::from_str comparing the text as it is, with Stopped for
\* a text it does not know
PlaybackStatus_from_str_defaulting(s) ==
    IF s = <<"p", "l", "a", "y", "i", "n", "g">> THEN Ok("Playing")
    ELSE IF s = <<"p", "a", "u", "s", "e", "d">> THEN Ok("Paused")
    ELSE Ok("Stopped")

\* PlaybackStatus::from_str
PlaybackStatus_from_str(s) ==
    IF to_lowercase(s) = <<"p", "l", "a", "y", "i", "n", "g">> THEN Ok("Playing")
    ELSE IF to_lowercase(s) = <<"p", "a", "u", "s", "e", "d">> THEN Ok("Paused")
    ELSE IF to_lowercase(s) = <<"s", "t", "o", "p", "p", "e", "d">> THEN Ok("Stopped")
    ELSE Err("TypeBuildError", <<"PlaybackStatus", s>>, None)

\* LoopStatus::from_str
LoopStatus_from_str(s) ==
    IF to_lowercase(s) = <<"n", "o", "n", "e">> THEN Ok("None")
    ELSE IF to_lowercase(s) = <<"t", "r", "a", "c", "k">> THEN Ok("Track")
    ELSE IF to_lowercase(s) = <<"p", "l", "a", "y", "l", "i", "s", "t">> THEN Ok("Playlist")
    ELSE Err("TypeBuildError", <<"LoopStatus", s>>, None)

\* RefArg::as_str: the text of a string or of an object path
as_str(w) == IF TypeOf(w) \in {"string", "objpath"} THEN Some(ValueOf(w)) ELSE None

\* MetadataMap::from_map taking the track id as it is
MetadataMap_from_map_unvalidated(raw_map) ==
    IF "mpris:trackid" \in DOMAIN raw_map
    THEN IF ~IsSome(as_str(raw_map["mpris:trackid"]))
         THEN Err("Msg", <<"Could not cast to str.">>, None)
         ELSE Ok([trackid |-> [track_id |-> Get(as_str(raw_map["mpris:trackid"]))],
                  raw_map |-> raw_map])
    ELSE Err("Msg", <<"Mandatory 'mpris:trackid' is not present.">>, None)

\* MetadataMap::from_map; raw_map is a function from keys to wire values
MetadataMap_from_map(raw_map) ==
    IF "mpris:trackid" \in DOMAIN raw_map
    THEN IF ~IsSome(as_str(raw_map["mpris:trackid"]))
         THEN Err("Msg", <<"Could not cast to str.">>, None)
         ELSE IF ~TrackId_from_str(Get(as_str(raw_map["mpris:trackid"]))).ok
         THEN TrackId_from_str(Get(as_str(raw_map["mpris:trackid"])))
         ELSE Ok([trackid |-> TrackId_from_str(Get(as_str(raw_map["mpris:trackid"]))).v,
                  raw_map |-> raw_map])
    ELSE Err("Msg", <<"Mandatory 'mpris:trackid' is not present.">>, None)

\* AsRef<str> for TrackId: the string view
TrackId_as_ref(self) == self.track_id

\* #[derive(PartialEq)] on TrackId
TrackId_eq(self, other) == self.track_id = other.track_id

\* an equality of MetadataMaps that compares the attribute maps too
MetadataMap_eq_structural(self, other) ==
    TrackId_eq(self.trackid, other.trackid) /\ self.raw_map = other.raw_map

\* PartialEq for MetadataMap
MetadataMap_eq(self, other) == TrackId_eq(self.trackid, other.trackid)

(***************************************************************************)
(* lib.rs: the accessors of MetadataMap (mm_getter!).  An integer of the   *)
(* wire is a little-endian sequence of 16-bit limbs: one limb for y and q, *)
(* two for u and i, four for t and x.                                      *)
(***************************************************************************)
LimbsOf(type) ==
    IF type \in {"u8", "u16", "i16"} THEN 1
    ELSE IF type \in {"u32", "i32"} THEN 2
    ELSE 4

WU8(n) == <<"u8", n>>
WU16(n) == <<"u16", n>>
WI32(n) == <<"i32", n>>
WU64(n) == <<"u64", n>>

\* the widening cast `as u64` of an unsigned value: the high limbs are zero
ZeroExtend(limbs, n) == [i \in 1..n |-> IF i <= Len(limbs) THEN limbs[i] ELSE 0]

\* the narrowing cast `as u32`: the low 32 bits
as_u32(limbs) == SubSeq(limbs, 1, LimbsOf("u32"))

\* RefArg::as_u64: Some for the unsigned integer types y, q, u, t
as_u64(w) ==
    IF TypeOf(w) \in {"u8", "u16", "u32", "u64"}
    THEN Some(ZeroExtend(ValueOf(w), LimbsOf("u64")))
    ELSE None

\* dbus::arg::cast::<T>: the value, when its type is exactly T
cast(w, T) == IF TypeOf(w) = T THEN Some(ValueOf(w)) ELSE None

\* DateTime::parse_from_rfc3339(text).ok(): a text of the pieces date, "T",
\* time and offset gives the instant; any other text gives None
RFC3339Dates == {"2007-04-29", "2008-04-29"}
RFC3339Times == {"14:35:51"}
RFC3339Offsets == {"+02:00", "Z"}
parse_from_rfc3339(text) ==
    IF /\ Len(text) = 4
       /\ text[1] \in RFC3339Dates /\ text[2] = "T"
       /\ text[3] \in RFC3339Times /\ text[4] \in RFC3339Offsets
    THEN Some([date |-> text[1], time |-> text[3], offset |-> text[4]])
    ELSE None

\* raw_map.get(map_name)
raw_map_get(self, map_name) ==
    IF map_name \in DOMAIN self.raw_map THEN Some(self.raw_map[map_name]) ELSE None

\* mm_getter!($name, u32, $map_name): Some(argref.as_u64()? as u32)
mm_getter_u32(self, map_name) ==
    IF ~IsSome(raw_map_get(self, map_name)) THEN None
    ELSE IF ~IsSome(as_u64(Get(raw_map_get(self, map_name)))) THEN None
    ELSE Some(as_u32(Get(as_u64(Get(raw_map_get(self, map_name))))))

\* mm_getter!($name, DateTime<FixedOffset>, $map_name)
mm_getter_DateTime(self, map_name) ==
    IF ~IsSome(raw_map_get(self, map_name)) THEN None
    ELSE IF ~IsSome(cast(Get(raw_map_get(self, map_name)), "string")) THEN None
    ELSE parse_from_rfc3339(Get(cast(Get(raw_map_get(self, map_name)), "string")))

\* mm_getter!($name, $return_type, $map_name)
mm_getter(self, return_type, map_name) ==
    IF ~IsSome(raw_map_get(self, map_name)) THEN None
    ELSE cast(Get(raw_map_get(self, map_name)), return_type)

\* the accessors: the key each looks up and the type it is declared with
\* (TimeInUs is f64, Uri is String)
Accessors ==
    [ length |-> <<"mpris:length", "f64">>,
      art_url |-> <<"mpris:artUrl", "string">>,
      album |-> <<"xesam:album", "string">>,
      album_artist |-> <<"xesam:albumArtist", "array_string">>,
      artist |-> <<"xesam:artist", "array_string">>,
      as_text |-> <<"xesam:asText", "string">>,
      audio_bpm |-> <<"xesam:audioBPM", "u32">>,
      auto_rating |-> <<"xesam:autoRating", "f64">>,
      comment |-> <<"xesam:comment", "array_string">>,
      composer |-> <<"xesam:composer", "array_string">>,
      content_created |-> <<"xesam:contentCreated", "DateTime">>,
      disc_number |-> <<"xesam:discNumber", "u32">>,
      first_used |-> <<"xesam:firstUsed", "DateTime">>,
      genre |-> <<"xesam:genre", "array_string">>,
      last_used |-> <<"xesam:lastUsed", "DateTime">>,
      lyricist |-> <<"xesam:lyricist", "array_string">>,
      title |-> <<"xesam:title", "string">>,
      track_number |-> <<"xesam:trackNumber", "u32">>,
      url |-> <<"xesam:url", "string">>,
      user_count |-> <<"xesam:userCount", "u32">>,
      user_rating |-> <<"xesam:userRating", "f64">> ]

\* the call self.<name>() of an accessor
MetadataMap_get(self, name) ==
    IF Accessors[name][2] = "u32" THEN mm_getter_u32(self, Accessors[name][1])
    ELSE IF Accessors[name][2] = "DateTime"
    THEN mm_getter_DateTime(self, Accessors[name][1])
    ELSE mm_getter(self, Accessors[name][2], Accessors[name][1])

(***************************************************************************)
(* ChangedProperty (client.rs)                                             *)
(***************************************************************************)
\* DebugStr::to_debug_str: the Debug rendering of a value, kept symbolic
to_debug_str(w) == <<"Debug", w>>

\* cast_var_to_str
cast_var_to_str(var) ==
    IF IsSome(as_str(var)) THEN Ok(Get(as_str(var)))
    ELSE Err("TypeCastError", <<to_debug_str(var), "&str">>, None)

\* cast_var::<T>: the value, when the wire value has exactly the type T;
\* stringify!(T) is the text "T"
cast_var(var, T) ==
    IF TypeOf(var) = T THEN Ok(ValueOf(var))
    ELSE Err("TypeCastError", <<to_debug_str(var), "T">>, None)

BoolProperties == {"CanQuit", "Fullscreen", "CanSetFullscreen", "CanRaise", "HasTrackList",
                   "Shuffle", "CanGoNext", "CanGoPrevious", "CanPlay", "CanPause",
                   "CanSeek", "CanEditTracks"}
StrProperties == {"Identity", "DesktopEntry"}
StrArrayProperties == {"SupportedUriSchemes", "SupportedMimeTypes"}
F64Properties == {"Rate", "Volume", "MinimumRate", "MaximumRate"}
KnownProperties == BoolProperties \cup StrProperties \cup StrArrayProperties
                       \cup F64Properties
                       \cup {"PlaybackStatus", "LoopStatus", "Metadata", "Tracks"}

\* Name(payload?): wraps an Ok payload into the variant, a pair of the variant's
\* name and its payload, and passes an error on
Variant(name, r) == IF r.ok THEN Ok(<<name, r.v>>) ELSE r

\* the enum properties: cast_var_to_str(data)? then from_str(..)?
EnumProperty(name, data) ==
    IF ~cast_var_to_str(data).ok THEN cast_var_to_str(data)
    ELSE IF name = "PlaybackStatus"
    THEN Variant(name, PlaybackStatus_from_str(cast_var_to_str(data).v))
    ELSE Variant(name, LoopStatus_from_str(cast_var_to_str(data).v))

\* from_variant failing on a name outside the table
from_variant_strict(name, data) ==
    IF name \in BoolProperties THEN Variant(name, cast_var(data, "bool"))
    ELSE Err("GeneralError", <<"unknown property">>, None)

\* ChangedProperty::from_variant
from_variant(name, data) ==
    IF name \in BoolProperties THEN Variant(name, cast_var(data, "bool"))
    ELSE IF name \in StrProperties THEN Variant(name, cast_var_to_str(data))
    ELSE IF name \in StrArrayProperties THEN Variant(name, cast_var(data, "array_string"))
    ELSE IF name \in {"PlaybackStatus", "LoopStatus"} THEN EnumProperty(name, data)
    ELSE IF name \in F64Properties THEN Variant(name, cast_var(data, "f64"))
    ELSE IF name = "Metadata"
    THEN IF TypeOf(data) = "dict_sv"
         THEN Variant(name, MetadataMap_from_map(ValueOf(data)))
         ELSE Err("TypeCastError", <<to_debug_str(data), "HashMap">>, None)
    ELSE IF name = "Tracks" THEN Ok(<<"Tracks">>)
    ELSE Ok(<<"Other", to_debug_str(data)>>)

(***************************************************************************)
(* Messages and MprisSignal::from_message (client.rs)                      *)
(***************************************************************************)
\* a dbus Message: msg.headers() gives (kind, path, interface, member)
Message(kind, sender, path, interface, member, body) ==
    [kind |-> kind, sender |-> sender, path |-> path, interface |-> interface,
     member |-> member, body |-> body]

\* the orders in which a HashMap with the keys of d can be iterated
KeyOrders(d) ==
    {o \in [1..Cardinality(DOMAIN d) -> DOMAIN d] :
        \A i, j \in DOMAIN o : o[i] = o[j] => i = j}

\* msg.get3::<String, HashMap<String, Variant>, Vec<String>>(): three positional
\* reads, each None when the argument is missing or of another type
get3(body) ==
    << IF Len(body) >= 1 /\ TypeOf(body[1]) = "string" THEN Some(ValueOf(body[1])) ELSE None,
       IF Len(body) >= 2 /\ TypeOf(body[2]) = "dict_sv" THEN Some(ValueOf(body[2])) ELSE None,
       IF Len(body) >= 3 /\ TypeOf(body[3]) = "array_string" THEN Some(ValueOf(body[3])) ELSE None >>

\* msg.get1::<i64>()
get1_i64(body) ==
    IF Len(body) >= 1 /\ TypeOf(body[1]) = "i64" THEN Some(ValueOf(body[1])) ELSE None

IsOk(r) == r.ok

\* changed_properties failing the whole signal on one undecodable entry
changed_properties_all_or_nothing(ch_props, ord) ==
    LET decoded == [i \in 1..Len(ord) |-> from_variant(ord[i], ch_props[ord[i]])]
    IN  IF \A i \in 1..Len(ord) : decoded[i].ok
        THEN [i \in 1..Len(ord) |-> decoded[i].v]
        ELSE <<>>

\* ch_props.into_iter().filter_map(|(n, v)| from_variant(&n, &mut v).ok()).collect(),
\* the map iterated in the order ord
changed_properties(ch_props, ord) ==
    LET decoded == [i \in 1..Len(ord) |-> from_variant(ord[i], ch_props[ord[i]])]
        kept == SelectSeq(decoded, IsOk)
    IN  [i \in 1..Len(kept) |-> kept[i].v]

\* the two known (path, interface, member) signatures
IsPropertiesChanged(msg) ==
    /\ msg.path = Some(RootPath)
    /\ msg.interface = Some(IfaceProps)
    /\ msg.member = Some("PropertiesChanged")

IsSeeked(msg) ==
    /\ msg.path = Some(RootPath)
    /\ msg.interface = Some(IfacePlayer)
    /\ msg.member = Some("Seeked")

\* from_message without the test of the message kind
from_message_any_kind(msg, ord) ==
    IF IsPropertiesChanged(msg)
    THEN IF IsSome(get3(msg.body)[1]) /\ IsSome(get3(msg.body)[2]) /\ IsSome(get3(msg.body)[3])
         THEN Some([sig |-> "PropertiesChanged",
                    interface |-> Get(get3(msg.body)[1]),
                    changed_properties |-> changed_properties(Get(get3(msg.body)[2]), ord),
                    invalidated_properties |-> Get(get3(msg.body)[3])])
         ELSE None
    ELSE IF IsSeeked(msg)
    THEN IF IsSome(get1_i64(msg.body))
         THEN Some([sig |-> "Seeked", position |-> Get(get1_i64(msg.body))])
         ELSE None
    ELSE None

\* MprisSignal::from_message; ord is the iteration order of the changed map
from_message(msg, ord) ==
    IF msg.kind = "signal" /\ IsSome(msg.path) /\ IsSome(msg.interface) /\ IsSome(msg.member)
    THEN IF IsPropertiesChanged(msg)
         THEN IF IsSome(get3(msg.body)[1]) /\ IsSome(get3(msg.body)[2])
                     /\ IsSome(get3(msg.body)[3])
              THEN Some([sig |-> "PropertiesChanged",
                         interface |-> Get(get3(msg.body)[1]),
                         changed_properties |->
                             changed_properties(Get(get3(msg.body)[2]), ord),
                         invalidated_properties |-> Get(get3(msg.body)[3])])
              ELSE None
         ELSE IF IsSeeked(msg)
         THEN IF IsSome(get1_i64(msg.body))
              THEN Some([sig |-> "Seeked", position |-> Get(get1_i64(msg.body))])
              ELSE None
         ELSE None
    ELSE None

\* the iteration orders from_message can meet on msg
OrdersOf(msg) ==
    IF IsSome(get3(msg.body)[2]) THEN KeyOrders(Get(get3(msg.body)[2])) ELSE {<<>>}

\* from_message yields a signal for msg (the same for every iteration order)
Decodable(msg) == \E ord \in OrdersOf(msg) : IsSome(from_message(msg, ord))

(***************************************************************************)
(* MprisSignals::next (client.rs)                                          *)
(***************************************************************************)
\* the sender filter of next without the comparison
sender_filter_open(self, msg) == TRUE

\* the closure of the first .filter(..): the sender is the unique or the
\* well-known bus name of the session
sender_filter(self, msg) ==
    IF IsSome(msg.sender)
    THEN Get(msg.sender) = self.unique_bus_name \/ Get(msg.sender) = self.bus_name
    ELSE FALSE

\* incoming(timeout).filter(..).filter_map(..).next() on the queue q: the
\* messages read up to and including the first one that passes both stages
\* are taken off the queue; with none passing, the queue is drained and the
\* wait times out
RECURSIVE MprisSignals_scan(_, _, _)
MprisSignals_scan(self, q, skipped) ==
    IF q = <<>> THEN [src |-> None, rest |-> <<>>, skipped |-> skipped]
    ELSE IF sender_filter(self, Head(q)) /\ Decodable(Head(q))
    THEN [src |-> Some(Head(q)), rest |-> Tail(q), skipped |-> skipped]
    ELSE MprisSignals_scan(self, Tail(q), Append(skipped, Head(q)))

(***************************************************************************)
(* MprisRoot (client.rs): the typed getters over the property reads.       *)
(***************************************************************************)
\* MprisRoot::can_quit, from the result of get_prop
can_quit(r) ==
    IF r.ok THEN IF TypeOf(r.v) = "bool" THEN Ok(ValueOf(r.v))
                 ELSE Err("GeneralError", <<"Could not get property: unexpected type">>, None)
    ELSE r

\* MprisRoot::fullscreen, from the result of get_optional_prop
fullscreen(r) ==
    IF r.ok
    THEN IF ~IsSome(r.v) THEN Ok(None)
         ELSE IF TypeOf(Get(r.v)) = "bool" THEN Ok(Some(ValueOf(Get(r.v))))
         ELSE Err("GeneralError", <<"Could not get property: unexpected type">>, None)
    ELSE r

(***************************************************************************)
(* The messages of the model.                                              *)
(***************************************************************************)
TextPlaying == <<"P", "l", "a", "Y", "i", "n", "g">>
TextBogus == <<"f", "o", "r", "w", "a", "r", "d">>
TextTrack == <<"/", "t", "/", "1">>

ChangedShuffle == [n \in {"Shuffle"} |-> WBool(TRUE)]
ChangedMixed == [n \in {"PlaybackStatus", "CanQuit"} |->
                    IF n = "CanQuit" THEN WBool(TRUE) ELSE WStr(TextBogus)]

BodyShuffle == <<WStr(IfacePlayer), WDict(ChangedShuffle), WStrArray(<<>>)>>
BodyMixed == <<WStr(IfacePlayer), WDict(ChangedMixed), WStrArray(<<"Volume">>)>>
BodySeeked == <<WI64(5)>>
BodyText == <<WStr(TextPlaying)>>

\* the broadcast signals of the model: four of the player, one of another client
Broadcasts(sender) ==
    IF sender = OtherClient
    THEN { Message("signal", Some(sender), Some(RootPath), Some(IfaceProps),
                   Some("PropertiesChanged"), BodyShuffle) }
    ELSE { Message("signal", Some(sender), Some(RootPath), Some(IfaceProps),
                   Some("PropertiesChanged"), BodyShuffle),
           Message("signal", Some(sender), Some(RootPath), Some(IfacePlayer),
                   Some("Seeked"), BodySeeked),
           Message("signal", Some(sender), Some(RootPath), Some(IfaceTrackList),
                   Some("TrackAdded"), BodyText),
           Message("signal", Some(sender), Some(<<"org", "other">>), Some(IfaceProps),
                   Some("PropertiesChanged"), BodyShuffle) }

\* messages addressed to the connection itself
Unicasts(self) ==
    { Message("signal", None, Some(RootPath), Some(IfaceProps),
              Some("PropertiesChanged"), BodyShuffle),
      Message("signal", Some(self.bus_name), Some(RootPath), Some(IfacePlayer),
              Some("Seeked"), BodySeeked) }

\* a match rule selects a message
RuleMatches(rule, msg) ==
    /\ msg.path = Some(rule.path)
    /\ msg.interface = Some(rule.interface)
    /\ (IsSome(rule.member) => msg.member = rule.member)

Timeouts == {-1, 1000}
\* what the last operation was given, what the transport answered, what the
\* DBusConn method returned (low) and what the operation returned (res)
Idle == [op |-> "none", args |-> <<>>, sent |-> <<>>, reply |-> None, low |-> None,
         res |-> None]
Returned(op, args, reply, low, res) ==
    [op |-> op, args |-> args, sent |-> <<>>, reply |-> reply, low |-> low, res |-> res]

\* a method call handed to the transport (send_with_reply_and_block)
Request(dest, path, interface, member, args) ==
    [dest |-> dest, path |-> path, interface |-> interface, member |-> member,
     args |-> args]

\* Props::get and Props::set: calls of org.freedesktop.DBus.Properties
PropsGet(self, obj_path, member) ==
    Request(self.bus_name, obj_path, IfaceProps, "Get", <<IfaceRoot, member>>)
PropsSet(self, obj_path, member, value) ==
    Request(self.bus_name, obj_path, IfaceProps, "Set", <<IfaceRoot, member, value>>)

\* the return of an operation that handed the requests sent to the transport
Called(op, args, sent, reply, low, res) ==
    [op |-> op, args |-> args, sent |-> sent, reply |-> reply, low |-> low, res |-> res]

(***************************************************************************)
(* The state machine.                                                      *)
(***************************************************************************)
Init ==
    /\ owner \in {None, Some(FirstUnique)}
    /\ conn = None
    /\ matches = {}
    /\ inbound = <<>>
    /\ stream = None
    /\ ret = Idle
    /\ emitted = <<>>
    /\ yielded = <<>>
    /\ sawEmpty = FALSE
    /\ arrivals = 0

\* the environment: the player process starts and takes its well-known name;
\* the bus never gives a unique name twice, so a player restarted under an
\* open session has another unique name than the one the session resolved
PlayerStart ==
    /\ ~IsSome(owner)
    /\ owner' = Some(IF IsSome(conn) THEN LaterUnique ELSE FirstUnique)
    /\ UNCHANGED <<conn, matches, inbound, stream, ret, emitted, yielded, sawEmpty, arrivals>>

\* the environment: the player process exits
PlayerExit ==
    /\ IsSome(owner)
    /\ owner' = None
    /\ UNCHANGED <<conn, matches, inbound, stream, ret, emitted, yielded, sawEmpty, arrivals>>

\* MprisClient::new(player_name, timeout_ms)
New(player_name, timeout_ms) ==
    /\ ~IsSome(conn)
    /\ \E connected \in ConnectReplies :
       \E reply \in GetNameOwnerReplies(owner, BusNameOf(player_name)) :
         LET r == DBusConn_new(player_name, timeout_ms, connected, reply) IN
           /\ ret' = Called("new", <<player_name, timeout_ms>>,
                            IF connected.ok
                            THEN <<Request(<<"org", "freedesktop", "DBus">>,
                                           <<"org", "freedesktop", "DBus">>,
                                           <<"org", "freedesktop", "DBus">>,
                                           "GetNameOwner", <<BusNameOf(player_name)>>)>>
                            ELSE <<>>,
                            IF connected.ok THEN reply ELSE connected, r, r)
           /\ conn' = IF r.ok THEN Some(r.v) ELSE None
           /\ matches' = IF r.ok THEN NewMatchRules ELSE {}
    /\ UNCHANGED <<owner, inbound, stream, emitted, yielded, sawEmpty, arrivals>>

\* a call that sends its request once more when the first one failed
CallMethod_retrying(member, errors) ==
    /\ IsSome(conn)
    /\ \E first \in CallReplies(owner, Get(conn).bus_name, {Unit}, errors) :
       \E reply \in CallReplies(owner, Get(conn).bus_name, {Unit}, errors) :
         LET req == Request(Get(conn).bus_name, RootPath, IfaceRoot, member, <<>>)
             r == call_method_without_reply(Get(conn), RootPath, member, reply)
         IN  ret' = Called(member, <<>>, IF first.ok THEN <<req>> ELSE <<req, req>>,
                           IF first.ok THEN first ELSE reply,
                           IF first.ok THEN Ok(Unit) ELSE r,
                           IF first.ok THEN Ok(Unit) ELSE r)
    /\ UNCHANGED <<owner, conn, matches, inbound, stream, emitted, yielded, sawEmpty, arrivals>>

\* MprisRoot::raise and MprisRoot::quit: the message is built, and sent once
CallMethod(member, errors) ==
    /\ IsSome(conn)
    /\ \E reply \in CallReplies(owner, Get(conn).bus_name, {Unit}, errors) :
         LET built == new_method_call(Get(conn).bus_name, RootPath, IfaceRoot, member)
             req == Request(Get(conn).bus_name, RootPath, IfaceRoot, member, <<>>)
             r == call_method_without_reply(Get(conn), RootPath, member, reply)
         IN  ret' = Called(member, <<>>, IF built.ok THEN <<req>> ELSE <<>>, reply, r, r)
    /\ UNCHANGED <<owner, conn, matches, inbound, stream, emitted, yielded, sawEmpty, arrivals>>

Raise(errors) == CallMethod("Raise", errors)
Quit(errors) == CallMethod("Quit", errors)

\* MprisRoot::can_quit
CanQuit(errors) ==
    /\ IsSome(conn)
    /\ \E reply \in CallReplies(owner, Get(conn).bus_name, PropValues, errors) :
         LET r == get_prop(Get(conn), RootPath, "CanQuit", reply)
         IN  ret' = Called("can_quit", <<>>, <<PropsGet(Get(conn), RootPath, "CanQuit")>>,
                           reply, r, can_quit(r))
    /\ UNCHANGED <<owner, conn, matches, inbound, stream, emitted, yielded, sawEmpty, arrivals>>

\* MprisRoot::fullscreen
Fullscreen(errors) ==
    /\ IsSome(conn)
    /\ \E reply \in CallReplies(owner, Get(conn).bus_name, PropValues, errors) :
         LET r == get_optional_prop(Get(conn), RootPath, "Fullscreen", reply)
         IN  ret' = Called("fullscreen", <<>>,
                           <<PropsGet(Get(conn), RootPath, "Fullscreen")>>,
                           reply, r, fullscreen(r))
    /\ UNCHANGED <<owner, conn, matches, inbound, stream, emitted, yielded, sawEmpty, arrivals>>

\* MprisRoot::set_fullscreen(value)
SetFullscreen(value, errors) ==
    /\ IsSome(conn)
    /\ \E reply \in CallReplies(owner, Get(conn).bus_name, {Unit}, errors) :
         LET r == set_prop(Get(conn), RootPath, "Fullscreen", WBool(value), reply)
         IN  ret' = Called("set_fullscreen", <<value>>,
                           <<PropsSet(Get(conn), RootPath, "Fullscreen", WBool(value))>>,
                           reply, r, r)
    /\ UNCHANGED <<owner, conn, matches, inbound, stream, emitted, yielded, sawEmpty, arrivals>>

\* signals() storing its timeout in the session
Signals_retiming(timeout_ms) ==
    /\ IsSome(conn)
    /\ stream' = Some([timeout_ms |-> timeout_ms])
    /\ conn' = Some([Get(conn) EXCEPT !.timeout = timeout_ms])
    /\ sawEmpty' = FALSE
    /\ ret' = Returned("signals", <<timeout_ms>>, None, None, None)
    /\ UNCHANGED <<owner, matches, inbound, emitted, yielded, arrivals>>

\* MprisClient::signals(timeout_ms): a new iterator over the same connection
Signals(timeout_ms) ==
    /\ IsSome(conn)
    /\ stream' = Some([timeout_ms |-> timeout_ms])
    /\ sawEmpty' = FALSE
    /\ ret' = Returned("signals", <<timeout_ms>>, None, None, None)
    /\ UNCHANGED <<owner, conn, matches, inbound, emitted, yielded, arrivals>>

\* a pull on an iterator that stays exhausted once it has yielded no item
Pull_fused ==
    /\ IsSome(conn)
    /\ IsSome(stream)
    /\ LET scan == IF sawEmpty THEN [src |-> None, rest |-> inbound, skipped |-> <<>>]
                   ELSE MprisSignals_scan(Get(conn), inbound, <<>>) IN
         /\ inbound' = scan.rest
         /\ yielded' = IF IsSome(scan.src) THEN Append(yielded, Get(scan.src)) ELSE yielded
         /\ sawEmpty' = (sawEmpty \/ ~IsSome(scan.src))
         /\ IF IsSome(scan.src)
            THEN \E ord \in OrdersOf(Get(scan.src)) :
                   ret' = Returned("next", <<scan.skipped, scan.rest>>, scan.src, None,
                                   from_message(Get(scan.src), ord))
            ELSE ret' = Returned("next", <<scan.skipped, scan.rest>>, None, None, None)
    /\ UNCHANGED <<owner, conn, matches, stream, emitted, arrivals>>

\* a pull that leaves the message it decoded in the queue
Pull_replaying ==
    /\ IsSome(conn)
    /\ IsSome(stream)
    /\ LET scan == MprisSignals_scan(Get(conn), inbound, <<>>)
           left == IF IsSome(scan.src) THEN <<Get(scan.src)>> \o scan.rest ELSE scan.rest
       IN
         /\ inbound' = left
         /\ yielded' = IF IsSome(scan.src) THEN Append(yielded, Get(scan.src)) ELSE yielded
         /\ sawEmpty' = (sawEmpty \/ ~IsSome(scan.src))
         /\ IF IsSome(scan.src)
            THEN \E ord \in OrdersOf(Get(scan.src)) :
                   ret' = Returned("next", <<scan.skipped, left>>, scan.src, None,
                                   from_message(Get(scan.src), ord))
            ELSE ret' = Returned("next", <<scan.skipped, left>>, None, None, None)
    /\ UNCHANGED <<owner, conn, matches, stream, emitted, arrivals>>

\* MprisSignals::next: one pull.  ret.args holds the messages the pull read
\* and discarded and the messages it left in the queue, ret.reply the
\* message it decoded
Pull ==
    /\ IsSome(conn)
    /\ IsSome(stream)
    /\ LET scan == MprisSignals_scan(Get(conn), inbound, <<>>) IN
         /\ inbound' = scan.rest
         /\ yielded' = IF IsSome(scan.src) THEN Append(yielded, Get(scan.src)) ELSE yielded
         /\ sawEmpty' = (sawEmpty \/ ~IsSome(scan.src))
         /\ IF IsSome(scan.src)
            THEN \E ord \in OrdersOf(Get(scan.src)) :
                   ret' = Returned("next", <<scan.skipped, scan.rest>>, scan.src, None,
                                   from_message(Get(scan.src), ord))
            ELSE ret' = Returned("next", <<scan.skipped, scan.rest>>, None, None, None)
    /\ UNCHANGED <<owner, conn, matches, stream, emitted, arrivals>>

\* the history of what the session's player emitted: each decodable signal
\* with the unique name the session resolved as its sender, and whether it
\* was emitted before any call of signals()
Emit(msg) ==
    IF Decodable(msg) /\ msg.sender = Some(Get(conn).unique_bus_name)
    THEN Append(emitted, [msg |-> msg, early |-> ~IsSome(stream)]) ELSE emitted
\* the environment: a bus client broadcasts a signal; the bus delivers it to
\* the connection when one of its match rules selects it
BusSignal(sender, msg) ==
    /\ IsSome(conn)
    /\ arrivals < MaxArrivals
    /\ Len(inbound) < MaxInbound
    /\ msg \in Broadcasts(sender)
    /\ arrivals' = arrivals + 1
    /\ emitted' = Emit(msg)
    /\ inbound' = IF \E rule \in matches : RuleMatches(rule, msg)
                  THEN Append(inbound, msg) ELSE inbound
    /\ UNCHANGED <<owner, conn, matches, stream, ret, yielded, sawEmpty>>

\* the environment: a message addressed to the connection arrives
BusUnicast(msg) ==
    /\ IsSome(conn)
    /\ arrivals < MaxArrivals
    /\ Len(inbound) < MaxInbound
    /\ msg \in Unicasts(Get(conn))
    /\ arrivals' = arrivals + 1
    /\ emitted' = Emit(msg)
    /\ inbound' = Append(inbound, msg)
    /\ UNCHANGED <<owner, conn, matches, stream, ret, yielded, sawEmpty>>

\* the senders of broadcasts: the running player and another client
Senders == (IF IsSome(owner) THEN {Get(owner)} ELSE {}) \cup {OtherClient}

\* the session and its calls, with every answer of the transport
Next ==
    \/ PlayerStart
    \/ PlayerExit
    \/ \E p \in PlayerNames, t \in Timeouts : New(p, t)
    \/ Raise(PlayerErrors)
    \/ Quit(PlayerErrors)
    \/ CanQuit(PlayerErrors)
    \/ Fullscreen(PlayerErrors)
    \/ \E b \in BOOLEAN : SetFullscreen(b, PlayerErrors)

Spec == Init /\ [][Next]_vars

\* the session with its signal stream and the traffic of the bus; a call is
\* answered by the player, or fails because the player has left the bus
NextSignals ==
    \/ PlayerStart
    \/ PlayerExit
    \/ New(ThePlayer, 1000)
    \/ Raise({})
    \/ Quit({})
    \/ CanQuit({})
    \/ Fullscreen({})
    \/ SetFullscreen(TRUE, {})
    \/ \E t \in {100} : Signals(t)
    \/ Pull
    \/ \E sender \in Senders : \E msg \in Broadcasts(sender) : BusSignal(sender, msg)
    \/ IsSome(conn) /\ \E msg \in Unicasts(Get(conn)) : BusUnicast(msg)

SpecSignals == Init /\ [][NextSignals]_vars

(***************************************************************************)
(* The decoders on their own: from_message and from_variant applied to     *)
(* messages and to (name, value) pairs drawn from the sets below.          *)
(***************************************************************************)
ChangedMetadata == [n \in {"mpris:trackid"} |-> WPath(TextTrack)]

DecodeBodies == {BodyShuffle, BodyMixed, BodySeeked, BodyText, <<>>,
                 <<WStr(IfacePlayer), WDict(ChangedShuffle)>>}

DecodeMessages ==
    { Message(kind, Some(FirstUnique), path, interface, member, body) :
        kind \in {"signal", "method_call", "method_return", "error"},
        path \in {None, Some(RootPath), Some(<<"org", "other">>)},
        interface \in {None, Some(IfaceProps), Some(IfacePlayer), Some(IfaceTrackList)},
        member \in {None, Some("PropertiesChanged"), Some("Seeked"), Some("TrackAdded")},
        body \in DecodeBodies }

DecodeNames == KnownProperties \cup {"Unrecognized", "CanControl"}

DecodeValues == {WBool(TRUE), WBool(FALSE), WStr(TextPlaying), WStr(TextBogus),
                 WPath(TextTrack), WF64(1), WI64(5), WU32(5), WStrArray(<<"a">>),
                 WDict(ChangedMetadata), WDict(ChangedShuffle)}

\* MprisSignal::from_message applied to msg
DecodeMessage(msg) ==
    /\ ret = Idle
    /\ \E ord \in OrdersOf(msg) :
         ret' = Returned("from_message", <<msg, ord>>, None, None, from_message(msg, ord))
    /\ UNCHANGED <<owner, conn, matches, inbound, stream, emitted, yielded, sawEmpty, arrivals>>

\* ChangedProperty::from_variant applied to (name, data)
DecodeVariant(name, data) ==
    /\ ret = Idle
    /\ ret' = Returned("from_variant", <<name, data>>, None, None, from_variant(name, data))
    /\ UNCHANGED <<owner, conn, matches, inbound, stream, emitted, yielded, sawEmpty, arrivals>>

NextDecode ==
    \/ \E msg \in DecodeMessages : DecodeMessage(msg)
    \/ \E name \in DecodeNames, data \in DecodeValues : DecodeVariant(name, data)

SpecDecode == Init /\ [][NextDecode]_vars

(***************************************************************************)
(* The value types of lib.rs on their own: the parsers, the constructor,   *)
(* the accessors and the equality of MetadataMap applied to the texts and  *)
(* maps below.                                                             *)
(***************************************************************************)
\* the characters of the texts handed to TrackId::from_str
PathAlphabet == {"/", "a", "B", "_", "1", "-"}
PathTexts == UNION {[1..k -> PathAlphabet] : k \in 0..MaxPathLen}

WordPlaying == <<"p", "l", "a", "y", "i", "n", "g">>
WordPaused == <<"p", "a", "u", "s", "e", "d">>
WordStopped == <<"s", "t", "o", "p", "p", "e", "d">>
StatusWords == {WordPlaying, WordPaused, WordStopped}

\* the letter-casings of a lower-case word
Casings(word) ==
    { [i \in 1..Len(word) |->
          IF i \in U THEN UpperChars[CHOOSE k \in 1..Len(LowerChars) : LowerChars[k] = word[i]]
          ELSE word[i]] : U \in SUBSET (1..Len(word)) }

\* the texts handed to PlaybackStatus::from_str: the casings of the three
\* words, the three hints of the protocol, and texts close to the words
StatusTexts ==
    UNION {Casings(w) : w \in StatusWords}
    \cup { <<"f", "o", "r", "w", "a", "r", "d", "-", "s", "e", "e", "k">>,
           <<"r", "e", "v", "e", "r", "s", "e", "-", "s", "e", "e", "k">>,
           <<"e", "r", "r", "o", "r">>, <<>>, <<" ">> }
    \cup {Append(w, c) : w \in StatusWords, c \in {"s", " "}}
    \cup {Tail(w) : w \in StatusWords}
    \cup {<<" ">> \o w : w \in StatusWords}

TextTrack2 == <<"/", "t", "/", "2">>
TextDate == <<"2007-04-29", "T", "14:35:51", "+02:00">>

\* values of an mpris:trackid entry
TrackIdValues == {WStr(TextTrack), WPath(TextTrack), WStr(TextTrack2), WPath(<<"/">>),
                  WStr(TextBogus), WStr(<<>>), WStr(<<"/", "t", "/">>),
                  WI64(5), WBool(TRUE), WStrArray(<<TextTrack>>)}

\* values of the other entries of a metadata map
MetaValues == {WStr(<<"example", "album">>), WStr(TextDate), WPath(TextTrack),
               WStrArray(<<"a">>), WF64(23), WBool(TRUE), WI64(5), WI32(<<23, 0>>),
               WU8(<<7>>), WU16(<<7>>), WU32(<<23, 0>>), WU32(<<65535, 65535>>),
               WU64(<<42, 0, 0, 0>>), WU64(<<5, 0, 1, 0>>)}

\* a HashMap<String, Rc<RefArg>> with an optional mpris:trackid entry and an
\* optional further entry (key, value)
MapOf(tid, extra) ==
    [k \in (IF IsSome(tid) THEN {"mpris:trackid"} ELSE {})
              \cup (IF IsSome(extra) THEN {Get(extra)[1]} ELSE {}) |->
        IF k = "mpris:trackid" /\ IsSome(tid) THEN Get(tid) ELSE Get(extra)[2]]

Options(S) == {None} \cup {Some(x) : x \in S}

BuildKeys == {"xesam:title", "xesam:audioBPM", "xesam:unknown"}
CompareMaps ==
    { MapOf(Some(tid), extra) :
        tid \in {WStr(TextTrack), WPath(TextTrack), WStr(TextTrack2)},
        extra \in Options({<<"xesam:title", WStr(<<"a">>)>>, <<"xesam:title", WStr(<<"b">>)>>}) }

\* TrackId::from_str applied to s
ParseTrackId(s) ==
    /\ ret = Idle
    /\ ret' = Returned("TrackId::from_str", <<s>>, None, None, TrackId_from_str(s))
    /\ UNCHANGED <<owner, conn, matches, inbound, stream, emitted, yielded, sawEmpty, arrivals>>

\* PlaybackStatus::from_str applied to s
ParsePlaybackStatus(s) ==
    /\ ret = Idle
    /\ ret' = Returned("PlaybackStatus::from_str", <<s>>, None, None,
                       PlaybackStatus_from_str(s))
    /\ UNCHANGED <<owner, conn, matches, inbound, stream, emitted, yielded, sawEmpty, arrivals>>

\* MetadataMap::from_map applied to raw_map
BuildMetadata(raw_map) ==
    /\ ret = Idle
    /\ ret' = Returned("from_map", <<raw_map>>, None, None, MetadataMap_from_map(raw_map))
    /\ UNCHANGED <<owner, conn, matches, inbound, stream, emitted, yielded, sawEmpty, arrivals>>

\* MetadataMap::from_map(raw_map).unwrap().<name>()
ReadMetadata(raw_map, name) ==
    /\ ret = Idle
    /\ MetadataMap_from_map(raw_map).ok
    /\ ret' = Returned("accessor", <<raw_map, name>>, None, None,
                       MetadataMap_get(MetadataMap_from_map(raw_map).v, name))
    /\ UNCHANGED <<owner, conn, matches, inbound, stream, emitted, yielded, sawEmpty, arrivals>>

\* the comparisons == among three MetadataMaps built from raw maps
CompareMetadata(ra, rb, rc) ==
    /\ ret = Idle
    /\ MetadataMap_from_map(ra).ok /\ MetadataMap_from_map(rb).ok
    /\ MetadataMap_from_map(rc).ok
    /\ LET a == MetadataMap_from_map(ra).v
           b == MetadataMap_from_map(rb).v
           c == MetadataMap_from_map(rc).v
       IN  ret' = Returned("eq", <<ra, rb, rc>>, None, None,
                           [aa |-> MetadataMap_eq(a, a), ab |-> MetadataMap_eq(a, b),
                            ba |-> MetadataMap_eq(b, a), bc |-> MetadataMap_eq(b, c),
                            ac |-> MetadataMap_eq(a, c)])
    /\ UNCHANGED <<owner, conn, matches, inbound, stream, emitted, yielded, sawEmpty, arrivals>>

NextValues ==
    \/ \E s \in PathTexts : ParseTrackId(s)
    \/ \E s \in StatusTexts : ParsePlaybackStatus(s)
    \/ \E tid \in Options(TrackIdValues) :
       \E extra \in Options(BuildKeys \X MetaValues) : BuildMetadata(MapOf(tid, extra))
    \/ \E name \in DOMAIN Accessors :
       \E tid \in {WStr(TextTrack), WPath(TextTrack)} :
       \E extra \in Options({Accessors[name][1], "xesam:unknown"} \X MetaValues) :
          ReadMetadata(MapOf(Some(tid), extra), name)
    \/ \E ra \in CompareMaps, rb \in CompareMaps, rc \in CompareMaps :
          CompareMetadata(ra, rb, rc)

SpecValues == Init /\ [][NextValues]_vars

(***************************************************************************)
(* Properties.                                                             *)
(***************************************************************************)
\* the transport answered with the error named name
AnsweredError(name) == ~ret.reply.ok /\ ret.reply.err.name = Some(name)

\* C1: opening a session for a player name whose bus name has no owner, so
\* that GetNameOwner fails, returns an error of kind ServiceUnknown.
C1_NoOwnerIsServiceUnknown ==
    (ret.op = "new" /\ AnsweredError(NameNameHasNoOwner))
        => (~ret.res.ok /\ ret.res.kind = "ServiceUnknown")

\* C2: get_optional_prop, and fullscreen() over it, return Ok(None) when the
\* transport answers the read with the UnknownProperty error, return an
\* error on every other transport error, and get_optional_prop returns
\* Some(value) on a successful read.
C2_OptionalPropertyAbsent ==
    ret.op = "fullscreen" =>
        /\ AnsweredError(NameUnknownProperty)
              => /\ ret.low.ok /\ ret.low.v = None
                 /\ ret.res.ok /\ ret.res.v = None
        /\ (~ret.reply.ok /\ ~AnsweredError(NameUnknownProperty))
              => /\ ~ret.low.ok /\ ret.low.kind = "DBus" /\ ret.low.args = <<ret.reply.err>>
                 /\ ~ret.res.ok
        /\ ret.reply.ok => (ret.low.ok /\ ret.low.v = Some(ret.reply.v))

C2_Witness ==
    /\ ret.op = "fullscreen"
    /\ AnsweredError(NameUnknownProperty)
    /\ ret.res.ok /\ ret.res.v = None

\* C3: set_prop, and set_fullscreen over it, return
\* AccessedAbsentOptionalProperty(object path, member) of the attempted write
\* when the transport answers the write with the UnknownProperty error, an
\* error of another kind on every other failure, and Ok on success.
C3_SetAbsentProperty ==
    ret.op = "set_fullscreen" =>
        /\ AnsweredError(NameUnknownProperty)
              => /\ ~ret.res.ok
                 /\ ret.res.kind = "AccessedAbsentOptionalProperty"
                 /\ ret.res.args = <<RootPath, "Fullscreen">>
        /\ (~ret.reply.ok /\ ~AnsweredError(NameUnknownProperty))
              => (~ret.res.ok /\ ret.res.kind # "AccessedAbsentOptionalProperty")
        /\ ret.reply.ok => (ret.res.ok /\ ret.res.v = Unit)

C3_Witness ==
    /\ ret.op = "set_fullscreen"
    /\ AnsweredError(NameUnknownProperty)
    /\ ~ret.res.ok /\ ret.res.kind = "AccessedAbsentOptionalProperty"

\* C4: raise and quit return ServiceUnknown(bus name) exactly when the
\* transport reports the ServiceUnknown error for the call; every other
\* failure is another kind of error, and success is Ok.
C4_CallServiceUnknown ==
    ret.op \in {"Raise", "Quit"} =>
        /\ AnsweredError(NameServiceUnknown)
              <=> (~ret.res.ok /\ ret.res.kind = "ServiceUnknown")
        /\ ret.reply.ok <=> ret.res.ok

\* the sender of msg is the well-known or the resolved unique name of the session
FromSession(msg) ==
    \/ msg.sender = Some(Get(conn).bus_name)
    \/ msg.sender = Some(Get(conn).unique_bus_name)

KnownSignature(msg) == IsPropertiesChanged(msg) \/ IsSeeked(msg)

\* C6: from_message yields a signal only for a message of the signal kind
\* whose (path, interface, member) is the PropertiesChanged or the Seeked
\* signature, and then the signal of that signature; every other message
\* gives None.
C6_TotalFilter ==
    ret.op = "from_message" =>
        LET msg == ret.args[1] IN
          /\ IsSome(ret.res) => (msg.kind = "signal" /\ KnownSignature(msg))
          /\ (IsSome(ret.res) /\ IsPropertiesChanged(msg))
                => Get(ret.res).sig = "PropertiesChanged"
          /\ (IsSome(ret.res) /\ IsSeeked(msg)) => Get(ret.res).sig = "Seeked"
          /\ (msg.kind # "signal" \/ ~KnownSignature(msg)) => ret.res = None

\* a method call with the PropertiesChanged signature and a well-formed
\* payload was discarded
C6_Witness ==
    /\ ret.op = "from_message"
    /\ ret.args[1].kind = "method_call"
    /\ IsPropertiesChanged(ret.args[1])
    /\ ret.args[1].body = BodyShuffle
    /\ ret.res = None

\* the payload of msg is (interface, changed map, invalidated list)
WellFormedChange(msg) ==
    /\ Len(msg.body) >= 3
    /\ TypeOf(msg.body[1]) = "string"
    /\ TypeOf(msg.body[2]) = "dict_sv"
    /\ TypeOf(msg.body[3]) = "array_string"

\* C7: a well-formed PropertiesChanged message yields a PropertiesChanged
\* signal with the payload's interface and invalidated list, whose changed
\* list holds exactly one decoded property per map entry that decodes and
\* nothing for an entry that does not; changed = {Shuffle: true} with an
\* empty invalidated list gives exactly [Shuffle(true)].
C7_ChangedDecoded ==
    (/\ ret.op = "from_message"
     /\ ret.args[1].kind = "signal"
     /\ IsPropertiesChanged(ret.args[1])
     /\ WellFormedChange(ret.args[1]))
        => LET body == ret.args[1].body
               map == ValueOf(body[2])
               good == {k \in DOMAIN map : from_variant(k, map[k]).ok}
           IN  /\ IsSome(ret.res)
               /\ Get(ret.res).sig = "PropertiesChanged"
               /\ Get(ret.res).interface = ValueOf(body[1])
               /\ Get(ret.res).invalidated_properties = ValueOf(body[3])
               /\ Len(Get(ret.res).changed_properties) = Cardinality(good)
               /\ \A k \in good :
                     \E i \in 1..Len(Get(ret.res).changed_properties) :
                        Get(ret.res).changed_properties[i] = from_variant(k, map[k]).v
               /\ body = BodyShuffle
                     => /\ Get(ret.res).changed_properties = << <<"Shuffle", TRUE>> >>
                        /\ Get(ret.res).invalidated_properties = <<>>

\* the PlaybackStatus entry of a two-entry map failed to decode and was
\* dropped, the CanQuit entry was kept
C7_Witness ==
    /\ ret.op = "from_message"
    /\ ret.args[1].kind = "signal"
    /\ IsPropertiesChanged(ret.args[1])
    /\ ret.args[1].body = BodyMixed
    /\ IsSome(ret.res)
    /\ Get(ret.res).changed_properties = << <<"CanQuit", TRUE>> >>
    /\ Get(ret.res).invalidated_properties = <<"Volume">>

\* the first message of q that the session's pull accepts, as an Option
FirstAccepted(q) ==
    IF \E i \in 1..Len(q) : FromSession(q[i]) /\ Decodable(q[i])
    THEN Some(q[CHOOSE i \in 1..Len(q) :
                  /\ FromSession(q[i]) /\ Decodable(q[i])
                  /\ \A j \in 1..(i - 1) : ~(FromSession(q[j]) /\ Decodable(q[j]))])
    ELSE None

\* the step is a pull: it returns from next, and is no step of the bus
PullStep == ret'.op = "next" /\ owner' = owner /\ arrivals' = arrivals

\* C8: a pull that finds no inbound message yields no item and leaves the
\* stream in place; a pull made after some pull on the stream yielded no
\* item, with a decodable signal of the session in the queue, yields the
\* first such signal.
C8_EmptyPullNotFinal ==
    [][ PullStep =>
          /\ inbound = <<>> => (ret'.res = None /\ stream' = stream /\ IsSome(stream'))
          /\ (sawEmpty /\ IsSome(FirstAccepted(inbound)))
                => /\ ret'.reply = FirstAccepted(inbound)
                   /\ IsSome(ret'.res)
                   /\ \E ord \in OrdersOf(Get(FirstAccepted(inbound))) :
                         ret'.res = from_message(Get(FirstAccepted(inbound)), ord) ]_vars

\* a pull of the stream yielded no item and a later pull of it a signal
C8_Witness == sawEmpty /\ ret.op = "next" /\ IsSome(ret.res)

\* the messages of a sequence that carry the session's resolved unique name
RECURSIVE OfPlayer(_)
OfPlayer(q) ==
    IF q = <<>> THEN <<>>
    ELSE IF Head(q).sender = Some(Get(conn).unique_bus_name) /\ Decodable(Head(q))
    THEN <<Head(q)>> \o OfPlayer(Tail(q))
    ELSE OfPlayer(Tail(q))

\* C9: every PropertiesChanged or Seeked signal the session's player emits
\* after new() returned has been yielded by a pull or is still queued for
\* the pulls, in the order of emission, whatever was called in between.
C9_NothingMissed ==
    IsSome(conn) =>
        [i \in 1..Len(emitted) |-> emitted[i].msg] = OfPlayer(yielded) \o OfPlayer(inbound)

\* a signal emitted before the first call of signals() was yielded by a pull
C9_Witness ==
    /\ ret.op = "next" /\ IsSome(ret.res)
    /\ \E i \in 1..Len(emitted) :
          /\ emitted[i].early
          /\ \E j \in 1..Len(yielded) : yielded[j] = emitted[i].msg

\* C10: from_variant never fails on a name outside its table and returns
\* Other(..) for it, whatever the value; a name of the table with a value
\* of the property's type returns the variant of that name with the value,
\* and "CanQuit" with the boolean true gives CanQuit(true).
C10_UnknownIsOther ==
    ret.op = "from_variant" =>
        LET name == ret.args[1]
            data == ret.args[2]
        IN  /\ name \notin KnownProperties => (ret.res.ok /\ ret.res.v[1] = "Other")
            /\ (\/ name \in BoolProperties /\ TypeOf(data) = "bool"
                \/ name \in StrProperties /\ TypeOf(data) = "string"
                \/ name \in StrArrayProperties /\ TypeOf(data) = "array_string"
                \/ name \in F64Properties /\ TypeOf(data) = "f64")
                  => (ret.res.ok /\ ret.res.v = <<name, ValueOf(data)>>)
            /\ (name = "PlaybackStatus" /\ data = WStr(TextPlaying))
                  => (ret.res.ok /\ ret.res.v = <<name, "Playing">>)
            /\ (name = "CanQuit" /\ data = WBool(TRUE))
                  => (ret.res.ok /\ ret.res.v = <<"CanQuit", TRUE>>)

C10_Witness ==
    /\ ret.op = "from_variant"
    /\ ret.args[1] = "Unrecognized"
    /\ ret.args[2] = WBool(TRUE)
    /\ ret.res.ok /\ ret.res.v[1] = "Other"

\* the characters of an element of an object path: [A-Z][a-z][0-9]_
ElementChars ==
    {UpperChars[k] : k \in 1..Len(UpperChars)} \cup {LowerChars[k] : k \in 1..Len(LowerChars)}
        \cup Digits \cup {"_"}

\* s is a run of elements, each a "/" followed by one or more element characters
RECURSIVE IsElements(_)
IsElements(s) ==
    \/ s = <<>>
    \/ \E k \in 2..Len(s) :
          /\ s[1] = "/"
          /\ \A j \in 2..k : s[j] \in ElementChars
          /\ IsElements(SubSeq(s, k + 1, Len(s)))

\* the syntax of an object path of the bus: the root "/", or a run of elements
IsObjectPath(s) == s = <<"/">> \/ (s # <<>> /\ IsElements(s))

\* the value is a string or an object path of the wire
StringShaped(w) == TypeOf(w) \in {"string", "objpath"}

\* C11, as amended: from_map fails if and only if the key mpris:trackid is
\* absent, or its value is not string-shaped, or the text of the value is
\* not a valid object path; for every map whose mpris:trackid holds the text
\* of a valid object path construction succeeds, with that text as the
\* track id and the map kept as it is, regardless of the other entries.
C11_FromMapFailsIff ==
    ret.op = "from_map" =>
        LET raw_map == ret.args[1] IN
          /\ ~ret.res.ok <=>
                \/ "mpris:trackid" \notin DOMAIN raw_map
                \/ ~StringShaped(raw_map["mpris:trackid"])
                \/ ~IsObjectPath(ValueOf(raw_map["mpris:trackid"]))
          /\ ret.res.ok =>
                /\ ret.res.v.trackid.track_id = ValueOf(raw_map["mpris:trackid"])
                /\ ret.res.v.raw_map = raw_map

\* construction succeeded on a map with a track id and an entry of a type
\* no accessor reads
C11_Witness ==
    /\ ret.op = "from_map"
    /\ ret.res.ok
    /\ "xesam:title" \in DOMAIN ret.args[1]
    /\ TypeOf(ret.args[1]["xesam:title"]) = "u64"

\* C11, as stated: from_map fails if and only if the key mpris:trackid is
\* absent or its value is not string-shaped.
C11_Original ==
    ret.op = "from_map" =>
        LET raw_map == ret.args[1] IN
          ~ret.res.ok <=>
              \/ "mpris:trackid" \notin DOMAIN raw_map
              \/ ~StringShaped(raw_map["mpris:trackid"])

\* the text of the mpris:trackid entry of a raw map
TrackTextOf(raw_map) == ValueOf(raw_map["mpris:trackid"])

\* C12: two MetadataMaps compare equal exactly when their track ids are
\* equal, whatever their other entries; the comparison is reflexive,
\* symmetric and transitive.
C12_EqualityByTrackId ==
    ret.op = "eq" =>
        LET ta == TrackTextOf(ret.args[1])
            tb == TrackTextOf(ret.args[2])
            tc == TrackTextOf(ret.args[3])
        IN  /\ ret.res.ab = (ta = tb)
            /\ ret.res.bc = (tb = tc)
            /\ ret.res.ac = (ta = tc)
            /\ ret.res.aa
            /\ ret.res.ab = ret.res.ba
            /\ (ret.res.ab /\ ret.res.bc) => ret.res.ac

\* two maps with the same track id and different titles compared equal, and
\* a third with another track id unequal
C12_Witness ==
    /\ ret.op = "eq"
    /\ "xesam:title" \in DOMAIN ret.args[1]
    /\ "xesam:title" \in DOMAIN ret.args[2]
    /\ ret.args[1]["xesam:title"] # ret.args[2]["xesam:title"]
    /\ ret.res.ab
    /\ ~ret.res.bc

\* C13: PlaybackStatus::from_str returns Playing, Paused or Stopped for
\* every letter-casing of "playing", "paused", "stopped", and fails with
\* TypeBuildError for every other text, the hints forward-seek, reverse-seek
\* and error among them; it returns no fourth state.
C13_PlaybackStatusParse ==
    ret.op = "PlaybackStatus::from_str" =>
        LET s == ret.args[1] IN
          /\ s \in Casings(WordPlaying) => ret.res = Ok("Playing")
          /\ s \in Casings(WordPaused) => ret.res = Ok("Paused")
          /\ s \in Casings(WordStopped) => ret.res = Ok("Stopped")
          /\ s \notin UNION {Casings(w) : w \in StatusWords}
                => ret.res = Err("TypeBuildError", <<"PlaybackStatus", s>>, None)
          /\ ret.res.ok => ret.res.v \in {"Playing", "Paused", "Stopped"}

C13_Witness ==
    /\ ret.op = "PlaybackStatus::from_str"
    /\ ret.args[1] = <<"S", "t", "O", "p", "P", "e", "D">>
    /\ ret.res = Ok("Stopped")

\* C14: TrackId::from_str succeeds for every valid object path s, and the
\* string view of the TrackId is s; for every text that is no valid object
\* path it fails with TypeBuildError.
C14_TrackIdParse ==
    ret.op = "TrackId::from_str" =>
        LET s == ret.args[1] IN
          /\ IsObjectPath(s) => (ret.res.ok /\ TrackId_as_ref(ret.res.v) = s)
          /\ ~IsObjectPath(s)
                => ret.res = Err("TypeBuildError", <<"TrackId", s>>, None)

C14_Witness ==
    /\ ret.op = "TrackId::from_str"
    /\ ret.args[1] = <<"/", "a", "/", "1">>
    /\ ret.res.ok
    /\ TrackId_as_ref(ret.res.v) = <<"/", "a", "/", "1">>

\* the wire type an accessor is declared with
DeclaredWireType(name) ==
    IF Accessors[name][2] = "DateTime" THEN "string" ELSE Accessors[name][2]

\* C15: an accessor returns None when its key is absent, and when the key
\* holds a value of another wire type than the accessor's declared type (for
\* audio_bpm, disc_number, track_number, user_count: any value that is not an
\* unsigned 32-bit integer); it returns Some(v) only for a value of the
\* declared type, with v the stored value.
C15_AccessorTyped ==
    ret.op = "accessor" =>
        LET raw_map == ret.args[1]
            name == ret.args[2]
            key == Accessors[name][1]
        IN  /\ key \notin DOMAIN raw_map => ret.res = None
            /\ (key \in DOMAIN raw_map /\ TypeOf(raw_map[key]) # DeclaredWireType(name))
                  => ret.res = None
            /\ IsSome(ret.res)
                  => /\ key \in DOMAIN raw_map
                     /\ TypeOf(raw_map[key]) = DeclaredWireType(name)
                     /\ Accessors[name][2] # "DateTime"
                           => Get(ret.res) = ValueOf(raw_map[key])

\* C16: can_quit returns a TypeCastError carrying a rendering of the value
\* and the target type name when the read of CanQuit succeeds with a value
\* that is no boolean, Ok(b) when the value is the boolean b, and the error
\* of the transport when the read fails.
C16_CanQuitTypeCast ==
    ret.op = "can_quit" =>
        /\ (ret.reply.ok /\ TypeOf(ret.reply.v) # "bool")
              => /\ ~ret.res.ok
                 /\ ret.res.kind = "TypeCastError"
                 /\ ret.res.args[1] = to_debug_str(ret.reply.v)
        /\ (ret.reply.ok /\ TypeOf(ret.reply.v) = "bool")
              => ret.res = Ok(ValueOf(ret.reply.v))
        /\ ~ret.reply.ok => ret.res = FromDBus(ret.reply.err)

\* the operations over the four DBusConn methods that reach the player
CallOps == {"Raise", "Quit", "can_quit", "fullscreen", "set_fullscreen"}

\* C17: no operation retries: a call of call_method_without_reply, get_prop,
\* get_optional_prop or set_prop hands at most one request to the transport,
\* addressed to the session's bus name; when the request fails the
\* operation has sent that one request and returns the outcome of that
\* failure.
C17_NoRetry ==
    ret.op \in CallOps =>
        /\ Len(ret.sent) <= 1
        /\ \A i \in 1..Len(ret.sent) :
              ret.sent[i].dest = Get(conn).bus_name /\ ret.sent[i].path = RootPath
        /\ ~ret.reply.ok
              => /\ Len(ret.sent) = 1
                 /\ \/ ~ret.low.ok /\ ret.low.kind = "DBus" /\ ret.low.args = <<ret.reply.err>>
                    \/ ~ret.low.ok /\ ret.low.cause = Some(ret.reply.err)
                    \/ ~ret.low.ok /\ ret.low.kind = "AccessedAbsentOptionalProperty"
                    \/ ret.op = "fullscreen" /\ ret.low = Ok(None)

\* quit failed on its one request after the player left the bus
C17_Witness ==
    /\ ret.op = "Quit"
    /\ ~IsSome(owner)
    /\ ~ret.reply.ok
    /\ Len(ret.sent) = 1
    /\ ~ret.res.ok

\* C18: once the session is constructed, no step of raise, quit, can_quit,
\* fullscreen, set_fullscreen, signals() or a pull, successful or failing,
\* and no step of the bus, changes the match rules, the well-known bus name,
\* the unique bus name resolved at connection time or the timeout.
C18_SessionFixed ==
    [][ IsSome(conn) =>
          /\ matches' = matches
          /\ IsSome(conn')
          /\ Get(conn').bus_name = Get(conn).bus_name
          /\ Get(conn').unique_bus_name = Get(conn).unique_bus_name
          /\ Get(conn').timeout = Get(conn).timeout ]_vars

\* after signals() and a pull that yielded a signal, the player restarted
\* under another unique name and a call succeeded: the session still holds
\* the five rules and the name resolved at connection time
C18_Witness ==
    /\ IsSome(conn)
    /\ IsSome(stream)
    /\ Len(yielded) > 0
    /\ owner = Some(LaterUnique)
    /\ ret.op = "set_fullscreen" /\ ret.res.ok
    /\ matches = NewMatchRules
    /\ Get(conn).unique_bus_name = FirstUnique

\* the messages a pull step has read: those it discarded, then the one it decoded
ReadBy(r) == r.args[1] \o (IF IsSome(r.reply) THEN <<Get(r.reply)>> ELSE <<>>)

\* every message a pull step reads leaves the queue, and the step yields at
\* most one signal, decoded from a message it has read itself
ConsumedOnce ==
    PullStep =>
        /\ inbound = ReadBy(ret') \o inbound'
        /\ yielded' = yielded \o (IF IsSome(ret'.reply) THEN <<Get(ret'.reply)>> ELSE <<>>)
        /\ IsSome(ret'.res) <=> IsSome(ret'.reply)

\* C19, as amended: each inbound message is read by at most one pull and
\* yields at most one signal: a pull takes every message it reads, yielded
\* or discarded, off the queue, so that no later pull yields it; a message
\* the pull has not read when it returns stays queued, in order, for the
\* later pulls, and a pull that yields nothing has read the whole queue.
C19_ReadOnce ==
    [][ /\ ConsumedOnce
        /\ PullStep =>
              /\ ret'.args[2] = inbound'
              /\ ~IsSome(ret'.reply) => inbound' = <<>>
              /\ IsSome(ret'.reply) => ~IsSome(FirstAccepted(ret'.args[1])) ]_vars

\* a pull has yielded a signal that the pull before it had left in the queue
C19_Witness ==
    /\ ret.op = "next" /\ IsSome(ret.res)
    /\ Len(yielded) = 2
    /\ arrivals = 2
    /\ ret.args[1] = <<>>
    /\ inbound = <<>>

\* C19, as stated: each inbound message is consumed by at most one pull and
\* yields at most one signal, and a message that the pull before left in
\* the queue is lost: the next pull does not yield it.
C19_Original ==
    [][ /\ ConsumedOnce
        /\ (PullStep /\ ret.op = "next" /\ IsSome(ret'.reply))
              => Len(ret'.args[1]) + 1 > Len(ret.args[2]) ]_vars
====
